---- MODULE Spec2Model ----
(***************************************************************************)
(* Header/footer cutter plugin: the pipeline of                            *)
(* header_and_footer_cutter_cat_plugin.py as a state machine.              *)
(*                                                                         *)
(* A string is a sequence of one-character strings.  A Document is a       *)
(* record [page_content, metadata].  A counts mapping (a Python dict, which*)
(* keeps insertion order) is a sequence of records [key, count] with       *)
(* pairwise distinct keys.                                                 *)
(***************************************************************************)
EXTENDS Integers, Sequences, FiniteSets, TLC

(* ---------------------------- bounds ---------------------------------- *)
MaxDocs == 3
MaxLen == 4
MaxTotal == 5
MaxLines == 2
MaxDifferences == 1
MaxRuns == 2
RerunMaxDocs == 2
RerunMaxLen == 6
RerunMaxTotal == 6

(* repeat_threshold is the rational rt / RtDen, rt \in 0..RtDen *)
RtDen == 2

NL == "\n"
Chars == {"a", "b", NL}

(* default of the max_differences parameter of remove_sequence_from_documents *)
DefaultMaxDifferences == 3

(* ------------------------- Python primitives -------------------------- *)
Max(a, b) == IF a >= b THEN a ELSE b
Min(a, b) == IF a <= b THEN a ELSE b

(* str.strip / lstrip / rstrip with no argument strip whitespace *)
IsSpace(c) == c \in {" ", NL, "\t", "\r"}

(* s[:n] for n >= 0 *)
Prefix(s, n) == SubSeq(s, 1, Min(n, Len(s)))
(* s[n:] for n >= 0 *)
DropPrefix(s, n) == SubSeq(s, Min(n, Len(s)) + 1, Len(s))
(* s[-n:] for n >= 1 *)
Suffix(s, n) == SubSeq(s, Max(Len(s) - n, 0) + 1, Len(s))
(* s[:-n] for n >= 1 *)
DropSuffix(s, n) == SubSeq(s, 1, Max(Len(s) - n, 0))

RECURSIVE lstrip(_)
lstrip(s) == IF s # <<>> /\ IsSpace(Head(s)) THEN lstrip(Tail(s)) ELSE s

RECURSIVE rstrip(_)
rstrip(s) ==
  IF s # <<>> /\ IsSpace(s[Len(s)]) THEN rstrip(SubSeq(s, 1, Len(s) - 1)) ELSE s

strip(s) == rstrip(lstrip(s))

(* str.splitlines(): pieces between line breaks, no empty piece after a    *)
(* final line break; "" gives [].                                          *)
RECURSIVE SplitAcc(_, _, _)
SplitAcc(s, cur, acc) ==
  IF s = <<>> THEN (IF cur = <<>> THEN acc ELSE Append(acc, cur))
  ELSE IF Head(s) = NL THEN SplitAcc(Tail(s), <<>>, Append(acc, cur))
  ELSE SplitAcc(Tail(s), Append(cur, Head(s)), acc)

splitlines(s) == SplitAcc(s, <<>>, <<>>)

(* "\n".join(lines) *)
RECURSIVE join(_)
join(lines) ==
  IF lines = <<>> THEN <<>>
  ELSE IF Len(lines) = 1 THEN lines[1]
  ELSE lines[1] \o <<NL>> \o join(Tail(lines))

(* ------------------------- fuzz.ratio --------------------------------- *)
(* Length of a longest common subsequence, one row of the table at a time *)
RECURSIVE LcsRow(_, _, _, _, _)
LcsRow(c, t, prev, j, row) ==
  (* row[j'] for j' < j is built (row is 1-based over 0..Len(t)) *)
  IF j > Len(t) THEN row
  ELSE LET v == IF c = t[j] THEN prev[j] + 1
                ELSE Max(prev[j + 1], row[j])
       IN LcsRow(c, t, prev, j + 1, Append(row, v))

RECURSIVE LcsRows(_, _, _)
LcsRows(s, t, prev) ==
  IF s = <<>> THEN prev[Len(t) + 1]
  ELSE LcsRows(Tail(s), t, LcsRow(Head(s), t, prev, 1, <<0>>))

LCS(s, t) == LcsRows(s, t, [j \in 1..(Len(t) + 1) |-> 0])

(* round() of the rational a / b, b > 0: halves go to the even neighbour *)
RoundHalfEven(a, b) ==
  LET q == a \div b
      r == a % b
  IN IF 2 * r > b THEN q + 1
     ELSE IF 2 * r < b THEN q
     ELSE IF q % 2 = 0 THEN q ELSE q + 1

(* thefuzz.fuzz.ratio: int(round(100 * 2 * LCS / (len1 + len2))), 100 for  *)
(* two empty strings                                                       *)
ratio(s1, s2) ==
  IF Len(s1) + Len(s2) = 0 THEN 100
  ELSE RoundHalfEven(200 * LCS(s1, s2), Len(s1) + Len(s2))

(* score >= 100 - (max_differences * 100 / length), for length > 0 *)
ScoreReaches(score, max_differences, length) ==
  score * length >= 100 * length - max_differences * 100

(* ------------- count_documents_with_similar_n_lines ------------------- *)
(* lines[:n] if header else lines[-n:], joined with "\n" *)
first_n_lines(page_content, n, header) ==
  LET lines == splitlines(page_content)
      selected_lines == IF header THEN Prefix(lines, n) ELSE Suffix(lines, n)
  IN join(selected_lines)

(* the scan over the keys: max_ratio starts at 0 and only a strictly       *)
(* greater ratio replaces the key; idx = 0 stands for None                 *)
RECURSIVE ScanKeys(_, _, _, _, _)
ScanKeys(counts, cand, i, idx, max_ratio) ==
  IF i > Len(counts) THEN [idx |-> idx, max_ratio |-> max_ratio]
  ELSE LET r == ratio(cand, counts[i].key)
       IN IF r > max_ratio THEN ScanKeys(counts, cand, i + 1, i, r)
          ELSE ScanKeys(counts, cand, i + 1, idx, max_ratio)

(* the scan with >= in place of >: the last key of greatest ratio, and a   *)
(* key even when every ratio is 0                                          *)
RECURSIVE ScanKeysLast(_, _, _, _, _)
ScanKeysLast(counts, cand, i, idx, max_ratio) ==
  IF i > Len(counts) THEN [idx |-> idx, max_ratio |-> max_ratio]
  ELSE LET r == ratio(cand, counts[i].key)
       IN IF r >= max_ratio THEN ScanKeysLast(counts, cand, i + 1, i, r)
          ELSE ScanKeysLast(counts, cand, i + 1, idx, max_ratio)

most_similar_key_last(counts, cand) == ScanKeysLast(counts, cand, 1, 0, 0)

most_similar_key(counts, cand) == ScanKeys(counts, cand, 1, 0, 0)

KeyIndex(counts, key) ==
  IF \E i \in 1..Len(counts) : counts[i].key = key
  THEN CHOOSE i \in 1..Len(counts) : counts[i].key = key
  ELSE 0

Increment(counts, i) == [counts EXCEPT ![i].count = @ + 1]

(* counts[key] += 1 on a defaultdict(int) *)
AddOne(counts, key) ==
  IF KeyIndex(counts, key) # 0 THEN Increment(counts, KeyIndex(counts, key))
  ELSE Append(counts, [key |-> key, count |-> 1])

(* One pass of the inner loop body for one candidate.  The division by     *)
(* len(first_n_lines) is evaluated only when most_similar_key is not None. *)
AssignCandidate(counts, cand, max_differences) ==
  LET m == most_similar_key(counts, cand)
  IN IF m.idx # 0 /\ Len(cand) = 0
     THEN [error |-> TRUE, counts |-> counts]
     ELSE IF m.idx # 0 /\ ScoreReaches(m.max_ratio, max_differences, Len(cand))
     THEN [error |-> FALSE, counts |-> Increment(counts, m.idx)]
     ELSE [error |-> FALSE, counts |-> AddOne(counts, cand)]

(* the two loops exchanged: for n in range(1, max_lines + 1): for doc in   *)
(* documents                                                               *)
NextIterationByLength(d, n, ndocs, max_lines) ==
  IF d < ndocs THEN <<d + 1, n>>
  ELSE IF n < max_lines THEN <<1, n + 1>>
  ELSE <<0, 0>>

(* for doc in documents: for n in range(1, max_lines + 1); <<0, 0>> when   *)
(* both loops are over                                                     *)
NextIteration(d, n, ndocs, max_lines) ==
  IF n < max_lines THEN <<d, n + 1>>
  ELSE IF d < ndocs THEN <<d + 1, 1>>
  ELSE <<0, 0>>

(* ---------------------- get_frequent_sequences ------------------------ *)
(* a sort that is not stable: x goes before the entries of its own length  *)
RECURSIVE InsertBeforeEqual(_, _)
InsertBeforeEqual(sorted, x) ==
  IF sorted = <<>> THEN <<x>>
  ELSE IF Len(Head(sorted).sequence) > Len(x.sequence)
       THEN <<Head(sorted)>> \o InsertBeforeEqual(Tail(sorted), x)
       ELSE <<x>> \o sorted

(* list.sort(key=len, reverse=True) is stable: x goes behind every entry   *)
(* that is at least as long                                                *)
RECURSIVE InsertByLength(_, _)
InsertByLength(sorted, x) ==
  IF sorted = <<>> THEN <<x>>
  ELSE IF Len(Head(sorted).sequence) >= Len(x.sequence)
       THEN <<Head(sorted)>> \o InsertByLength(Tail(sorted), x)
       ELSE <<x>> \o sorted

RECURSIVE SortByLength(_, _)
SortByLength(list, sorted) ==
  IF list = <<>> THEN sorted
  ELSE SortByLength(Tail(list), InsertByLength(sorted, Head(list)))

(* min_count_threshold is given times RtDen, so that it stays an integer *)
get_frequent_sequences(counts, min_count_threshold) ==
  LET kept == SelectSeq(counts, LAMBDA e : e.count * RtDen >= min_count_threshold)
      frequent_sequences ==
        [i \in 1..Len(kept) |-> [sequence |-> kept[i].key, count |-> kept[i].count]]
  IN SortByLength(frequent_sequences, <<>>)

(* -------------------- remove_sequence_from_documents ------------------ *)
(* a matched head or tail replaced by the sequence instead of removed *)
CleanDocumentKeepsSequence(doc, sequence, max_differences) ==
  LET L == Len(sequence)
      text0 == strip(doc.page_content)
      head == ScoreReaches(ratio(sequence, Prefix(text0, L)), max_differences, L)
      text1 == IF head THEN sequence \o lstrip(DropPrefix(text0, L)) ELSE text0
      tail == ScoreReaches(ratio(sequence, Suffix(text1, L)), max_differences, L)
      text2 == IF tail THEN rstrip(DropSuffix(text1, L)) \o sequence ELSE text1
  IN [doc |-> [page_content |-> text2, metadata |-> doc.metadata],
      head |-> head, tail |-> tail]

(* the body of the loop for one document; Len(sequence) > 0 *)
CleanDocument(doc, sequence, max_differences) ==
  LET L == Len(sequence)
      text0 == strip(doc.page_content)
      head == ScoreReaches(ratio(sequence, Prefix(text0, L)), max_differences, L)
      text1 == IF head THEN lstrip(DropPrefix(text0, L)) ELSE text0
      tail == ScoreReaches(ratio(sequence, Suffix(text1, L)), max_differences, L)
      text2 == IF tail THEN rstrip(DropSuffix(text1, L)) ELSE text1
  IN [doc |-> [page_content |-> text2, metadata |-> doc.metadata],
      head |-> head, tail |-> tail]

CountTrue(flags) == Cardinality({i \in 1..Len(flags) : flags[i]})

(* the notifications sent after the loop *)
Messages(count_clean_head, count_clean_tail, sequence) ==
  (IF count_clean_head > 0
   THEN <<[kind |-> "headers", count |-> count_clean_head, sequence |-> sequence]>>
   ELSE <<>>)
  \o
  (IF count_clean_tail > 0
   THEN <<[kind |-> "footers", count |-> count_clean_tail, sequence |-> sequence]>>
   ELSE <<>>)

(* a document whose text becomes empty is left out of cleaned_documents *)
remove_sequence_drops_empty(documents, sequence, max_differences) ==
  IF Len(sequence) = 0 /\ documents # <<>>
  THEN [error |-> TRUE, cleaned_documents |-> <<>>, messages |-> <<>>]
  ELSE LET res == [i \in 1..Len(documents) |->
                     CleanDocument(documents[i], sequence, max_differences)]
           cleaned == [i \in 1..Len(documents) |-> res[i].doc]
       IN [error |-> FALSE,
           cleaned_documents |-> SelectSeq(cleaned, LAMBDA d : d.page_content # <<>>),
           messages |-> Messages(CountTrue([i \in 1..Len(documents) |-> res[i].head]),
                                 CountTrue([i \in 1..Len(documents) |-> res[i].tail]),
                                 sequence)]

remove_sequence_from_documents(documents, sequence, max_differences) ==
  IF Len(sequence) = 0 /\ documents # <<>>
  THEN [error |-> TRUE, cleaned_documents |-> <<>>, messages |-> <<>>]
  ELSE LET res == [i \in 1..Len(documents) |->
                     CleanDocument(documents[i], sequence, max_differences)]
       IN [error |-> FALSE,
           cleaned_documents |-> [i \in 1..Len(documents) |-> res[i].doc],
           messages |-> Messages(CountTrue([i \in 1..Len(documents) |-> res[i].head]),
                                 CountTrue([i \in 1..Len(documents) |-> res[i].tail]),
                                 sequence)]

(* ---------------------- remove_headers_and_footers -------------------- *)
(* max(2, len(docs) * repeat_threshold), times RtDen *)
min_repeting_docs(ndocs, repeat_threshold) ==
  Max(2 * RtDen, ndocs * repeat_threshold)

(* ------------------------------ state --------------------------------- *)
VARIABLES
  docs,           \* the collection passed to the hook
  settings,       \* the plugin settings of the call
  run,            \* which call of the hook this is
  pc,             \* headers, footers, filter, excise, done, failed
  pos,            \* <<document index, n>> of the clustering loops
  header_counts,  \* counts of the header pass
  footer_counts,  \* counts of the footer pass
  headers,
  footers,
  docs_update,    \* the working copy
  k,              \* index into headers + footers of the next excision
  applied,        \* the sequences excised so far, in call order
  sent            \* the notifications sent to the cat so far

vars == <<docs, settings, run, pc, pos, header_counts, footer_counts,
          headers, footers, docs_update, k, applied, sent>>

(* the collections of 1..maxDocs documents of at most maxLen characters    *)
(* each and maxTotal characters together; metadata is the page number      *)
RECURSIVE Total(_)
Total(lens) == IF lens = <<>> THEN 0 ELSE Head(lens) + Total(Tail(lens))

Collection(lens, flat) ==
  [i \in 1..Len(lens) |->
     [page_content |-> SubSeq(flat, Total(SubSeq(lens, 1, i - 1)) + 1,
                                    Total(SubSeq(lens, 1, i))),
      metadata |-> i]]

Start(maxDocs, maxLen, maxTotal) ==
  /\ \E n \in 1..maxDocs : \E lens \in [1..n -> 0..maxLen] :
       /\ Total(lens) <= maxTotal
       /\ \E flat \in [1..Total(lens) -> Chars] : docs = Collection(lens, flat)
  /\ settings \in [max_lines : 1..MaxLines,
                   max_differences : 0..MaxDifferences,
                   repeat_threshold : 0..RtDen]
  /\ run = 1
  /\ pc = "headers"
  /\ pos = <<1, 1>>
  /\ header_counts = <<>>
  /\ footer_counts = <<>>
  /\ headers = <<>>
  /\ footers = <<>>
  /\ docs_update = <<>>
  /\ k = 1
  /\ applied = <<>>
  /\ sent = <<>>

Init == Start(MaxDocs, MaxLen, MaxTotal)

(* fewer, longer documents, for the calls that are repeated *)
InitRerun == Start(RerunMaxDocs, RerunMaxLen, RerunMaxTotal)

(* the candidate of the current iteration *)
Candidate == first_n_lines(docs[pos[1]].page_content, pos[2], pc = "headers")

(* one iteration of the loops of count_documents_with_similar_n_lines, in  *)
(* the header pass and then in the footer pass                             *)
count_documents_with_similar_n_lines ==
  /\ pc \in {"headers", "footers"}
  /\ LET counts == IF pc = "headers" THEN header_counts ELSE footer_counts
         res == AssignCandidate(counts, Candidate, settings.max_differences)
         nxt == NextIteration(pos[1], pos[2], Len(docs), settings.max_lines)
     IN IF res.error
        THEN /\ pc' = "failed"
             /\ UNCHANGED <<pos, header_counts, footer_counts>>
        ELSE /\ header_counts' = IF pc = "headers" THEN res.counts ELSE header_counts
             /\ footer_counts' = IF pc = "footers" THEN res.counts ELSE footer_counts
             /\ IF nxt # <<0, 0>>
                THEN pos' = nxt /\ pc' = pc
                ELSE pos' = <<1, 1>> /\
                     pc' = IF pc = "headers" THEN "footers" ELSE "filter"
  /\ UNCHANGED <<docs, settings, run, headers, footers, docs_update, k, applied, sent>>

(* lines 207 and 212-215 *)
frequent_sequences ==
  /\ pc = "filter"
  /\ LET m == min_repeting_docs(Len(docs), settings.repeat_threshold)
     IN /\ headers' = get_frequent_sequences(header_counts, m)
        /\ footers' = get_frequent_sequences(footer_counts, m)
  /\ docs_update' = docs
  /\ k' = 1
  /\ pc' = "excise"
  /\ UNCHANGED <<docs, settings, run, pos, header_counts, footer_counts, applied, sent>>

(* one turn of the loop over headers + footers *)
excise ==
  /\ pc = "excise"
  /\ k <= Len(headers \o footers)
  /\ LET sequence == (headers \o footers)[k].sequence
         res == remove_sequence_from_documents(docs_update, sequence,
                                               DefaultMaxDifferences)
     IN IF res.error
        THEN /\ pc' = "failed"
             /\ UNCHANGED <<docs_update, k, applied, sent>>
        ELSE /\ docs_update' = res.cleaned_documents
             /\ sent' = sent \o res.messages
             /\ applied' = Append(applied, sequence)
             /\ k' = k + 1
             /\ pc' = pc
  /\ UNCHANGED <<docs, settings, run, pos, header_counts, footer_counts, headers, footers>>

(* return docs_update *)
return ==
  /\ pc = "excise"
  /\ k > Len(headers \o footers)
  /\ pc' = "done"
  /\ UNCHANGED <<docs, settings, run, pos, header_counts, footer_counts,
                 headers, footers, docs_update, k, applied, sent>>

(* the hook is called again, on the collection the previous call returned  *)
before_rabbithole_splits_text ==
  /\ pc = "done"
  /\ run < MaxRuns
  /\ docs' = docs_update
  /\ run' = run + 1
  /\ pc' = "headers"
  /\ pos' = <<1, 1>>
  /\ header_counts' = <<>>
  /\ footer_counts' = <<>>
  /\ headers' = <<>>
  /\ footers' = <<>>
  /\ docs_update' = <<>>
  /\ k' = 1
  /\ applied' = <<>>
  /\ sent' = <<>>
  /\ UNCHANGED settings

(* one call of the hook *)
Next ==
  \/ count_documents_with_similar_n_lines
  \/ frequent_sequences
  \/ excise
  \/ return

Spec == Init /\ [][Next]_vars

(* the hook called again on what it returned *)
NextRerun ==
  \/ count_documents_with_similar_n_lines
  \/ frequent_sequences
  \/ excise
  \/ return
  \/ before_rabbithole_splits_text

SpecRerun == InitRerun /\ [][NextRerun]_vars

(* ====================================================================== *)
(*                              properties                                *)
(* ====================================================================== *)
Contents(ds) == [i \in 1..Len(ds) |-> ds[i].page_content]

AllCounts == header_counts \o footer_counts

(* C1: a collection of exactly one document is left untouched: no cluster  *)
(* reaches a count of 2, no notification is sent, and the content returned *)
(* is the content passed in.                                               *)
C1_SingleDocumentUntouched ==
  Len(docs) = 1 =>
    /\ \A i \in 1..Len(AllCounts) : AllCounts[i].count < 2
    /\ sent = <<>>
    /\ (pc = "done" => Contents(docs_update) = Contents(docs))

(* what an excision does when only a region equal to the sequence, character*)
(* for character, may be removed                                           *)
ExactClean(page_content, sequence) ==
  LET L == Len(sequence)
      text0 == strip(page_content)
      text1 == IF Prefix(text0, L) = sequence
               THEN lstrip(DropPrefix(text0, L)) ELSE text0
  IN IF Suffix(text1, L) = sequence THEN rstrip(DropSuffix(text1, L)) ELSE text1

(* C2: with max_differences = 0 every excision of the pipeline removes a   *)
(* head or tail region only when it equals the sequence character for      *)
(* character.                                                              *)
C2_ExactWhenNoDifferences ==
  [][(pc = "excise" /\ k' = k + 1 /\ settings.max_differences = 0) =>
       \A i \in 1..Len(docs_update) :
         docs_update'[i].page_content =
           ExactClean(docs_update[i].page_content, (headers \o footers)[k].sequence)]_vars

(* C3: after every excision and at the return, no document is longer than  *)
(* the same document of the input.                                         *)
C3_MonotonicShrink ==
  pc \in {"excise", "done"} =>
    \A i \in 1..Len(docs_update) :
      Len(docs_update[i].page_content) <= Len(docs[i].page_content)

C3_Witness ==
  /\ pc = "done"
  /\ applied # <<>>
  /\ \E i \in 1..Len(docs) :
       /\ Len(docs_update[i].page_content) > 0
       /\ Len(docs_update[i].page_content) < Len(docs[i].page_content)

(* C4: the input collection never changes during a call, and the working   *)
(* copy has the documents of the input, in the same order, with the same   *)
(* metadata.                                                               *)
C4_FrameEffect ==
  /\ [][docs' = docs]_vars
  /\ [](pc \in {"excise", "done"} =>
          /\ Len(docs_update) = Len(docs)
          /\ \A i \in 1..Len(docs) : docs_update[i].metadata = docs[i].metadata)

C4_Witness ==
  /\ pc = "done"
  /\ Len(docs) >= 2
  /\ \E i \in 1..Len(docs) : docs_update[i].page_content # docs[i].page_content
  /\ \E i \in 1..Len(docs) : docs_update[i].page_content # <<>>

(* C5: an empty candidate is never recorded as a cluster key. *)
C5_NoEmptyKey ==
  \A i \in 1..Len(AllCounts) : AllCounts[i].key # <<>>

(* C6: a second call, on what the first call returned and with the same    *)
(* settings, removes nothing: it sends no notification and returns the     *)
(* contents it was given.                                                  *)
C6_SecondRunRemovesNothing ==
  run = 2 =>
    /\ sent = <<>>
    /\ (pc = "done" => Contents(docs_update) = Contents(docs))

(* C7: every count of a mapping is a number of documents: at least 1 and   *)
(* at most the number of documents of the collection.                      *)
C7_CountsAreDocumentCounts ==
  \A i \in 1..Len(AllCounts) :
    AllCounts[i].count >= 1 /\ AllCounts[i].count <= Len(docs)

(* the greatest similarity score of the candidate over all keys, and the   *)
(* first key that has it                                                   *)
BestScore(counts, cand) ==
  CHOOSE r \in {ratio(cand, counts[i].key) : i \in 1..Len(counts)} :
    \A i \in 1..Len(counts) : ratio(cand, counts[i].key) <= r

FirstBest(counts, cand) ==
  CHOOSE i \in 1..Len(counts) :
    /\ ratio(cand, counts[i].key) = BestScore(counts, cand)
    /\ \A j \in 1..(i - 1) : ratio(cand, counts[j].key) < BestScore(counts, cand)

Reaches(score, max_differences, length) ==
  score * length >= 100 * length - max_differences * 100

(* the step as stated: any best score that reaches the cutoff increments *)
StatedAssign(counts, cand, max_differences) ==
  IF counts # <<>> /\ Reaches(BestScore(counts, cand), max_differences, Len(cand))
  THEN [counts EXCEPT ![FirstBest(counts, cand)].count = @ + 1]
  ELSE Append(counts, [key |-> cand, count |-> 1])

(* the step as amended: a best score of 0 never increments *)
PositiveAssign(counts, cand, max_differences) ==
  IF /\ counts # <<>>
     /\ BestScore(counts, cand) > 0
     /\ Reaches(BestScore(counts, cand), max_differences, Len(cand))
  THEN [counts EXCEPT ![FirstBest(counts, cand)].count = @ + 1]
  ELSE Append(counts, [key |-> cand, count |-> 1])

(* the clustering step leaves the mapping of the current pass equal to c *)
StepGives(c) ==
  /\ pc' # "failed"
  /\ pc = "headers" => header_counts' = c /\ footer_counts' = footer_counts
  /\ pc = "footers" => footer_counts' = c /\ header_counts' = header_counts

CurrentCounts == IF pc = "headers" THEN header_counts ELSE footer_counts

RECURSIVE DocMajor(_, _, _, _, _, _)
DocMajor(ds, max_lines, max_differences, header, d, acc) ==
  IF acc.error \/ d > Len(ds) THEN acc
  ELSE LET RECURSIVE Inner(_, _)
           Inner(n, a) ==
             IF a.error \/ n > max_lines THEN a
             ELSE Inner(n + 1,
                        AssignCandidate(a.counts,
                                        first_n_lines(ds[d].page_content, n, header),
                                        max_differences))
       IN DocMajor(ds, max_lines, max_differences, header, d + 1, Inner(1, acc))

(* clustering with n in the outer loop and the documents in the inner one *)
RECURSIVE NMajor(_, _, _, _, _, _)
NMajor(ds, max_lines, max_differences, header, n, acc) ==
  IF acc.error \/ n > max_lines THEN acc
  ELSE LET RECURSIVE Inner(_, _)
           Inner(d, a) ==
             IF a.error \/ d > Len(ds) THEN a
             ELSE Inner(d + 1,
                        AssignCandidate(a.counts,
                                        first_n_lines(ds[d].page_content, n, header),
                                        max_differences))
       IN NMajor(ds, max_lines, max_differences, header, n + 1, Inner(1, acc))

NoCounts == [error |-> FALSE, counts |-> <<>>]

ByDocument(header) ==
  DocMajor(docs, settings.max_lines, settings.max_differences, header, 1, NoCounts)

ByLength(header) ==
  NMajor(docs, settings.max_lines, settings.max_differences, header, 1, NoCounts)

(* C9 as stated: each pass yields the mapping (keys, insertion order,      *)
(* counts) of the algorithm that takes n = 1..max_lines in turn and, for   *)
(* each n, all documents in collection order.                              *)
C9_LengthMajorOrder ==
  /\ (pc = "footers" /\ pos = <<1, 1>> /\ footer_counts = <<>>) =>
       header_counts = ByLength(TRUE).counts
  /\ pc = "filter" => footer_counts = ByLength(FALSE).counts
  /\ pc = "failed" => ByLength(TRUE).error \/ ByLength(FALSE).error

(* C9 as amended: each pass yields the mapping of the algorithm that takes *)
(* the documents in collection order and, for each document, n = 1 ..      *)
(* max_lines in turn.                                                      *)
C9_DocumentMajorOrder ==
  /\ (pc = "footers" /\ pos = <<1, 1>> /\ footer_counts = <<>>) =>
       header_counts = ByDocument(TRUE).counts
  /\ pc = "filter" => footer_counts = ByDocument(FALSE).counts
  /\ pc = "failed" => ByDocument(TRUE).error \/ ByDocument(FALSE).error

C9_Witness ==
  /\ pc = "filter"
  /\ Len(docs) >= 2
  /\ settings.max_lines >= 2
  /\ \A i \in 1..Len(header_counts) : header_counts[i].key # <<>>
  /\ \E i \in 1..Len(header_counts) : header_counts[i].count >= 2
  /\ header_counts # ByLength(TRUE).counts

(* list is the keys of counts whose count reaches min_repeating_docs, the  *)
(* longer first and, among equally long ones, the earlier created first    *)
IsFrequentOrder(list, counts) ==
  LET Frequent(e) == /\ e.count >= 2
                     /\ e.count * RtDen >= Len(docs) * settings.repeat_threshold
      At(key) == CHOOSE i \in 1..Len(counts) : counts[i].key = key
  IN /\ \A i \in 1..Len(list) :
          \E j \in 1..Len(counts) : counts[j].key = list[i] /\ Frequent(counts[j])
     /\ \A j \in 1..Len(counts) :
          Frequent(counts[j]) => \E i \in 1..Len(list) : list[i] = counts[j].key
     /\ \A i, j \in 1..Len(list) :
          i < j => /\ list[i] # list[j]
                   /\ Len(list[i]) >= Len(list[j])
                   /\ Len(list[i]) = Len(list[j]) => At(list[i]) < At(list[j])

(* each excision applied to what the one before it returned *)
RECURSIVE Chain(_, _)
Chain(ds, list) ==
  IF list = <<>> THEN ds
  ELSE Chain(remove_sequence_from_documents(ds, Head(list),
                                            DefaultMaxDifferences).cleaned_documents,
             Tail(list))

====
